---- MODULE Spec2Model ----
(***************************************************************************)
(* The browser client of the financial research agent: the CompanySearch   *)
(* form (handleSubmit), the analyzeCompany service with its retry loop,    *)
(* the Home page state (handleResult / handleError) and the formatNumber   *)
(* renderer of CompanyReport.                                              *)
(*                                                                         *)
(* Encoding of JavaScript values:                                          *)
(*   - a string is a sequence of one-character strings ("" is <<>>);       *)
(*   - a message (Error.message, banner text) is a sequence of words;      *)
(*   - an optional value is a sequence of length <= 1: Null (undefined or  *)
(*     null) is <<>>, a present value v is <<v>>;                          *)
(*   - an object with optional keys is a function from its keys to         *)
(*     optional values.                                                    *)
(***************************************************************************)
EXTENDS Integers, Sequences, FiniteSets, TLC

\* ---------------------------------------------------------------- bounds
MaxNameLen == 2     \* longest text typed into the company-name input
MaxRisks == 2       \* longest potential_risks list in a response
MaxNews == 2        \* longest news_data list in a response
MaxCalls == 2       \* analyzeCompany calls that direct callers overlap

\* ------------------------------------------------------------ JS values
Null == <<>>
Some(v) == <<v>>

\* all sequences over S of length at most n
RECURSIVE SeqsUpTo(_, _)
SeqsUpTo(S, n) ==
    IF n = 0 THEN {<<>>}
    ELSE LET shorter == SeqsUpTo(S, n - 1)
         IN shorter \cup {Append(s, x) : s \in {t \in shorter : Len(t) = n - 1}, x \in S}

WhiteSpace == {" "}

\* String.prototype.trim
RECURSIVE TrimStart(_)
TrimStart(s) ==
    IF s # <<>> /\ Head(s) \in WhiteSpace THEN TrimStart(Tail(s)) ELSE s

RECURSIVE TrimEnd(_)
TrimEnd(s) ==
    IF s # <<>> /\ s[Len(s)] \in WhiteSpace THEN TrimEnd(SubSeq(s, 1, Len(s) - 1)) ELSE s

\* variant: the input is used as typed
TrimNothing(s) == s

Trim(s) == TrimEnd(TrimStart(s))

\* x || d for an optional string: undefined, null and "" are falsy
OrStr(o, d) == IF o = Null \/ o[1] = <<>> THEN d ELSE o[1]

\* x || d for an optional object or array: only undefined and null are falsy
OrObj(o, d) == IF o = Null THEN d ELSE o[1]

\* obj?.key on an optional object whose fields are optional strings
OptField(o, key) == IF o = Null THEN Null ELSE o[1][key]

\* ------------------------------------------------------------- numbers
FracDigits == 3     \* decimal digits the model keeps after the point

RECURSIVE Pow10(_)
Pow10(n) == IF n = 0 THEN 1 ELSE 10 * Pow10(n - 1)

Scale == Pow10(FracDigits)

\* a JS number: NaN, or the value scaled/Scale
NaN == [nan |-> TRUE, scaled |-> 0]
Number(k) == [nan |-> FALSE, scaled |-> k]

\* a JS value held by a numeric report field: a number or a string
NumVal(k) == [t |-> "number", n |-> Number(k), s |-> <<>>]
StrVal(chars) == [t |-> "string", n |-> NaN, s |-> chars]

DigitChars == <<"0", "1", "2", "3", "4", "5", "6", "7", "8", "9">>
IsDigit(c) == \E d \in 1..10 : DigitChars[d] = c
DigitVal(c) == (CHOOSE d \in 1..10 : DigitChars[d] = c) - 1

RECURSIVE DigitPrefixLen(_)
DigitPrefixLen(s) ==
    IF s # <<>> /\ IsDigit(Head(s)) THEN 1 + DigitPrefixLen(Tail(s)) ELSE 0

RECURSIVE DigitsToNat(_)
DigitsToNat(s) ==
    IF s = <<>> THEN 0 ELSE 10 * DigitsToNat(SubSeq(s, 1, Len(s) - 1)) + DigitVal(s[Len(s)])

\* the first FracDigits fraction digits as a scaled integer
FracToScaled(s) ==
    LET kept == SubSeq(s, 1, IF Len(s) < FracDigits THEN Len(s) ELSE FracDigits)
    IN DigitsToNat(kept) * Pow10(FracDigits - Len(kept))

\* parseFloat(string): leading whitespace, sign, digits, optional fraction;
\* parsing stops at the first character that cannot continue the number
parseFloat(str) ==
    LET s0 == TrimStart(str)
        signed == s0 # <<>> /\ Head(s0) \in {"-", "+"}
        neg == s0 # <<>> /\ Head(s0) = "-"
        s1 == IF signed THEN Tail(s0) ELSE s0
        ni == DigitPrefixLen(s1)
        rest == SubSeq(s1, ni + 1, Len(s1))
        hasDot == rest # <<>> /\ Head(rest) = "."
        fracPart == IF hasDot THEN Tail(rest) ELSE <<>>
        nf == DigitPrefixLen(fracPart)
        mag == DigitsToNat(SubSeq(s1, 1, ni)) * Scale + FracToScaled(SubSeq(fracPart, 1, nf))
    IN IF ni + nf = 0 THEN NaN
       ELSE Number(IF neg THEN 0 - mag ELSE mag)

RECURSIVE NatToStr(_)
NatToStr(n) ==
    IF n < 10 THEN <<DigitChars[n + 1]>>
    ELSE NatToStr(n \div 10) \o <<DigitChars[(n % 10) + 1]>>

Pad3(n) ==
    <<DigitChars[(n \div 100) + 1], DigitChars[((n \div 10) % 10) + 1], DigitChars[(n % 10) + 1]>>

\* en-US grouping of the integer part
RECURSIVE Group(_)
Group(n) ==
    IF n < 1000 THEN NatToStr(n)
    ELSE Group(n \div 1000) \o <<",">> \o Pad3(n % 1000)

NaNText == <<"N", "a", "N">>
NA == <<"N", "/", "A">>
UndefinedText == <<"u", "n", "d", "e", "f", "i", "n", "e", "d">>

\* new Intl.NumberFormat('en-US', {style: 'decimal', maximumFractionDigits: 2}).format(num)
IntlFormat(num) ==
    IF num.nan THEN NaNText
    ELSE LET mag == IF num.scaled < 0 THEN 0 - num.scaled ELSE num.scaled
             unit == Scale \div 100
             cents == (mag + (unit \div 2)) \div unit
             ip == cents \div 100
             fr == cents % 100
             sign == IF num.scaled < 0 THEN <<"-">> ELSE <<>>
             frac == IF fr = 0 THEN <<>>
                     ELSE IF fr % 10 = 0 THEN <<".", DigitChars[(fr \div 10) + 1]>>
                     ELSE <<".", DigitChars[(fr \div 10) + 1], DigitChars[(fr % 10) + 1]>>
         IN sign \o Group(ip) \o frac

\* formatNumber(value) for value = an optional JS value (Null is undefined)
formatNumber(value) ==
    IF value # Null /\ value[1].t = "number" THEN IntlFormat(value[1].n)
    ELSE IF value # Null /\ value[1].s = NA THEN NA
    ELSE IntlFormat(parseFloat(IF value = Null THEN UndefinedText ELSE value[1].s))

\* ------------------------------------------------- response payloads
FinancialFields ==
    {"revenue", "gross_profit", "operating_margin", "pe_ratio", "market_cap",
     "price", "change_percent", "volume", "week_52_high", "week_52_low"}

\* the object literal {}: every key is undefined
EmptyObject == [k \in FinancialFields |-> Null]

AllNAObject == [k \in FinancialFields |-> Some(StrVal(NA))]

\* price 123.456 (number), volume "1234567", change_percent "-1.5", the rest undefined
MixedObject ==
    [k \in FinancialFields |->
        IF k = "price" THEN Some(NumVal(123456))
        ELSE IF k = "volume" THEN Some(StrVal(<<"1", "2", "3", "4", "5", "6", "7">>))
        ELSE IF k = "change_percent" THEN Some(StrVal(<<"-", "1", ".", "5">>))
        ELSE Null]

FinancialDataInputs == {Null, Some(EmptyObject), Some(AllNAObject), Some(MixedObject)}

MarketDataInputs == {Null, Some(MixedObject)}

CompanyInfoInputs ==
    {Null,
     Some([name |-> Null, description |-> Null, sector |-> Null, industry |-> Null]),
     Some([name |-> Some(<<>>), description |-> Some(<<"d">>), sector |-> Some(<<>>), industry |-> Null]),
     Some([name |-> Some(<<"A">>), description |-> Some(<<"d">>), sector |-> Some(<<"s">>), industry |-> Some(<<"i">>)])}

NarrativeFields == {"financial_health", "market_position", "growth_potential", "key_metrics_analysis"}

FinancialAnalysisInputs ==
    {Null,
     Some([k \in NarrativeFields |-> Null]),
     Some([financial_health |-> Some(<<"h">>), market_position |-> Some(<<>>),
           growth_potential |-> Null, key_metrics_analysis |-> Some(<<"k">>)]),
     Some([financial_health |-> Some(<<"h">>), market_position |-> Some(<<"m">>),
           growth_potential |-> Some(<<"g">>), key_metrics_analysis |-> Some(<<"k">>)])}

RiskItems == {<<"r", "1">>, <<"r", "2">>}

NewsItems ==
    {[title |-> <<"t", "1">>, description |-> <<"x">>, url |-> <<"u", "1">>, publishedAt |-> <<"2", "4">>],
     [title |-> <<"t", "2">>, description |-> <<>>, url |-> <<"u", "2">>, publishedAt |-> <<"2", "3">>]}

PotentialRisksInputs == {Null} \cup {Some(l) : l \in SeqsUpTo(RiskItems, MaxRisks)}

NewsDataInputs == {Null} \cup {Some(l) : l \in SeqsUpTo(NewsItems, MaxNews)}

\* the provenance / diagnostics list a response may carry
SourcesInputs == {Null, Some(<<<<"n", "e", "w", "s", ":", "f", "a", "i", "l", "e", "d">>>>)}

\* a response with every section present and filled
FullData ==
    [company_info |-> Some([name |-> Some(<<"A">>), description |-> Some(<<"d">>),
                            sector |-> Some(<<"s">>), industry |-> Some(<<"i">>)]),
     financial_data |-> Some(MixedObject),
     market_data |-> Some(MixedObject),
     financial_analysis |-> Some([financial_health |-> Some(<<"h">>), market_position |-> Some(<<"m">>),
                                  growth_potential |-> Some(<<"g">>), key_metrics_analysis |-> Some(<<"k">>)]),
     potential_risks |-> Some(<<<<"r", "1">>>>),
     news_data |-> Some(<<>>),
     sources |-> Null]

\* a response with every section missing
BareData ==
    [company_info |-> Null, financial_data |-> Null, market_data |-> Null,
     financial_analysis |-> Null, potential_risks |-> Null, news_data |-> Null,
     sources |-> Null]

\* base with one section replaced by each of that section's inputs
VaryOne(base) ==
    {[base EXCEPT !.company_info = v] : v \in CompanyInfoInputs}
    \cup {[base EXCEPT !.financial_data = v] : v \in FinancialDataInputs}
    \cup {[base EXCEPT !.market_data = v] : v \in MarketDataInputs}
    \cup {[base EXCEPT !.financial_analysis = v] : v \in FinancialAnalysisInputs}
    \cup {[base EXCEPT !.potential_risks = v] : v \in PotentialRisksInputs}
    \cup {[base EXCEPT !.news_data = v] : v \in NewsDataInputs}
    \cup {[base EXCEPT !.sources = v] : v \in SourcesInputs}

\* response.data of a 2xx response
ResponseData == VaryOne(FullData) \cup VaryOne(BareData)

\* variant: the name defaults to '' like the other identity fields
companyInfoEmptyDefault(data, companyName) ==
    [name |-> OrStr(OptField(data.company_info, "name"), <<>>),
     description |-> OrStr(OptField(data.company_info, "description"), <<>>),
     sector |-> OrStr(OptField(data.company_info, "sector"), <<>>),
     industry |-> OrStr(OptField(data.company_info, "industry"), <<>>)]

\* company_info of the object literal built by analyzeCompany
companyInfoOf(data, companyName) ==
    [name |-> OrStr(OptField(data.company_info, "name"), companyName),
     description |-> OrStr(OptField(data.company_info, "description"), <<>>),
     sector |-> OrStr(OptField(data.company_info, "sector"), <<>>),
     industry |-> OrStr(OptField(data.company_info, "industry"), <<>>)]

\* variant: narrative fields default to the marker "N/A"
financialAnalysisNADefault(data) ==
    [financial_health |-> OrStr(OptField(data.financial_analysis, "financial_health"), NA),
     market_position |-> OrStr(OptField(data.financial_analysis, "market_position"), NA),
     growth_potential |-> OrStr(OptField(data.financial_analysis, "growth_potential"), NA),
     key_metrics_analysis |-> OrStr(OptField(data.financial_analysis, "key_metrics_analysis"), NA)]

\* financial_analysis of that literal
financialAnalysisOf(data) ==
    [financial_health |-> OrStr(OptField(data.financial_analysis, "financial_health"), <<>>),
     market_position |-> OrStr(OptField(data.financial_analysis, "market_position"), <<>>),
     growth_potential |-> OrStr(OptField(data.financial_analysis, "growth_potential"), <<>>),
     key_metrics_analysis |-> OrStr(OptField(data.financial_analysis, "key_metrics_analysis"), <<>>)]

\* potential_risks of that literal
potentialRisksOf(data) == OrObj(data.potential_risks, <<>>)

\* variant: an empty or missing news list becomes one placeholder item
PlaceholderNews ==
    [title |-> <<"N", "o", " ", "n", "e", "w", "s">>, description |-> <<>>, url |-> <<>>, publishedAt |-> <<>>]

newsDataPlaceholder(data) ==
    IF data.news_data = Null \/ data.news_data[1] = <<>> THEN <<PlaceholderNews>> ELSE data.news_data[1]

\* news_data of that literal
newsDataOf(data) == OrObj(data.news_data, <<>>)

\* the object literal built by analyzeCompany from response.data
transformedData(data, companyName) ==
    [company_info |-> companyInfoOf(data, companyName),
     financial_data |-> OrObj(data.financial_data, EmptyObject),
     market_data |-> OrObj(data.market_data, EmptyObject),
     financial_analysis |-> financialAnalysisOf(data),
     potential_risks |-> potentialRisksOf(data),
     news_data |-> newsDataOf(data)]

\* what CompanyReport renders of the lists: one element per item, by map, in order
\* (the publication date goes through Date.toLocaleDateString and is left out)
renderedRisks(report) == [i \in 1..Len(report.potential_risks) |-> report.potential_risks[i]]

renderedNews(report) ==
    [i \in 1..Len(report.news_data) |->
        [href |-> report.news_data[i].url,
         title |-> report.news_data[i].title,
         description |-> report.news_data[i].description]]

\* what CompanyReport renders for a numeric field of financial_data
renderedNumber(report, field) == formatNumber(report.financial_data[field])

\* ------------------------------------------------------------- errors
TimeoutMessage == <<"timeout", "of", "300000ms", "exceeded">>
DefaultErrorMessage == <<"Failed", "to", "analyze", "company">>
EmptyInputMessage == <<"Please", "enter", "a", "company", "name">>
TypeErrorMessage == <<"Cannot", "read", "properties", "of", "null">>
ObjectText == <<"[object", "Object]">>

StringDetail(text) == Some([isString |-> TRUE, text |-> text, message |-> Null])
ObjectDetail(message) == Some([isString |-> FALSE, text |-> <<>>, message |-> message])

\* the rejections of api.post that axios.isAxiosError recognises:
\* error.code, error.message and error.response?.data?.detail
AxiosErrors ==
    {[code |-> "ECONNABORTED", message |-> TimeoutMessage, detail |-> Null],
     [code |-> "ETIMEDOUT", message |-> TimeoutMessage, detail |-> Null],
     [code |-> "ERR_NETWORK", message |-> <<"Network", "Error">>, detail |-> Null],
     [code |-> "ERR_BAD_RESPONSE", message |-> <<"Request", "failed", "with", "status", "code", "500">>,
      detail |-> StringDetail(<<"Analysis", "failed">>)],
     [code |-> "ERR_BAD_REQUEST", message |-> <<"Request", "failed", "with", "status", "code", "422">>,
      detail |-> ObjectDetail(Some(<<"Unknown", "company">>))],
     [code |-> "ERR_BAD_REQUEST", message |-> <<"Request", "failed", "with", "status", "code", "400">>,
      detail |-> ObjectDetail(Null)],
     [code |-> "ERR_BAD_REQUEST", message |-> <<"Request", "failed", "with", "status", "code", "404">>,
      detail |-> Null],
     [code |-> "ERR_CANCELED", message |-> <<>>, detail |-> Null]}

\* error.code === 'ECONNABORTED' || error.message.includes('timeout')
isTimeout(err) ==
    err.code = "ECONNABORTED" \/ \E i \in 1..Len(err.message) : err.message[i] = "timeout"

\* detail?.message || detail || error.message || 'Failed to analyze company',
\* then new Error(errorMessage).message
errorMessage(err) ==
    LET d == err.detail
    IN IF d # Null /\ ~d[1].isString /\ d[1].message # Null /\ d[1].message[1] # <<>>
          THEN d[1].message[1]
       ELSE IF d # Null /\ d[1].isString /\ d[1].text # <<>> THEN d[1].text
       ELSE IF d # Null /\ ~d[1].isString THEN ObjectText
       ELSE IF err.message # <<>> THEN err.message
       ELSE DefaultErrorMessage

\* ------------------------------------------------------ state machine
maxRetries == 3

NameChars == {" ", "a"}
\* the texts the user can type into the input
TypedNames == SeqsUpTo(NameChars, MaxNameLen)

VARIABLES
    companyName,    \* CompanySearch state: text of the input
    isLoading,      \* CompanySearch state
    inputError,     \* CompanySearch state: optional message
    trimmedName,    \* handleSubmit local: argument of the analyzeCompany call in flight
    retryCount,     \* analyzeCompany local
    request,        \* the HTTP request awaited by executeWithRetry, if any
    error,          \* Home state: optional message
    companyData,    \* Home state: optional report
    submitted,      \* history: the input text of the latest submit, if any
    outcome,        \* history: how the latest submit went
    shownAtSubmit,  \* history: a report was on display when the latest submit started
    lastResponse,   \* history: response.data that resolved the latest submit, if any
    nAnalyze,       \* history: analyzeCompany calls of the latest submit
    nPosts,         \* history: api.post calls of the latest submit
    nOnResult,      \* history: onResult calls of the latest submit
    nOnError,       \* history: onError calls of the latest submit
    inFlight,       \* history: analyzeCompany calls of the form that have not settled
    attempts,       \* history: how each settled api.post of the latest submit ended
    ignoredSubmit,  \* history: the disabled submit button was clicked since the latest submit
    calls           \* the analyzeCompany calls made by direct callers, one record each

formVars == <<companyName, isLoading, inputError>>
callVars == <<trimmedName, retryCount, request>>
pageVars == <<error, companyData>>
histVars == <<submitted, outcome, shownAtSubmit, lastResponse, nAnalyze, nPosts, nOnResult, nOnError>>
attemptVars == <<inFlight, attempts, ignoredSubmit>>
vars == <<formVars, callVars, pageVars, histVars, attemptVars, calls>>

CallIds == 1..MaxCalls

\* a call slot before analyzeCompany is called in it
IdleCall ==
    [status |-> "idle", companyName |-> <<>>, retryCount |-> 0, request |-> Null,
     result |-> Null, thrown |-> Null, nPosts |-> 0, attempts |-> <<>>]

Init ==
    /\ companyName = <<>>
    /\ isLoading = FALSE
    /\ inputError = Null
    /\ trimmedName = <<>>
    /\ retryCount = 0
    /\ request = Null
    /\ error = Null
    /\ companyData = Null
    /\ submitted = Null
    /\ outcome = "none"
    /\ shownAtSubmit = FALSE
    /\ lastResponse = Null
    /\ nAnalyze = 0
    /\ nPosts = 0
    /\ nOnResult = 0
    /\ nOnError = 0
    /\ inFlight = 0
    /\ attempts = <<>>
    /\ ignoredSubmit = FALSE
    /\ calls = [c \in CallIds |-> IdleCall]

\* variant: the error banner is not cleared
handleResultKeepsError(data) ==
    /\ UNCHANGED error
    /\ companyData' = Some(data)

\* Home.handleResult
handleResult(data) ==
    /\ error' = Null
    /\ companyData' = Some(data)

\* variant: the displayed report is not cleared
handleErrorKeepsReport(msg) ==
    /\ error' = Some(msg)
    /\ UNCHANGED companyData

\* Home.handleError
handleError(msg) ==
    /\ error' = Some(msg)
    /\ companyData' = Null

\* the request api.post issues for one attempt
PostRequest(name) ==
    [method |-> "POST", url |-> "/api/research", body |-> [company_name |-> name]]

\* !trimmedName
IsBlank(name) == name = <<>>

\* variant: the retry test also passes on the last attempt
shouldRetryOnceMore(err, count) == isTimeout(err) /\ count <= maxRetries - 1

\* isTimeout && retryCount < maxRetries - 1
shouldRetry(err, count) == isTimeout(err) /\ count < maxRetries - 1

\* how an api.post rejection ended, for the attempts history
AttemptKind(err) ==
    IF err.code = "ECONNABORTED" \/ err.message = TimeoutMessage THEN "timeout" ELSE "error"

\* disabled={isLoading} on the input
inputDisabled == isLoading

\* variant: the submit button is never disabled
submitNeverDisabled == FALSE

\* disabled={isLoading} on the submit button
submitDisabled == isLoading

\* the input's onChange; no change event comes from a disabled input
onChange(value) ==
    /\ ~inputDisabled
    /\ companyName' = value
    /\ inputError' = Null
    /\ UNCHANGED <<isLoading, callVars, pageVars, histVars, attemptVars, calls>>

\* the form's onSubmit up to its first await; no submit event comes from a
\* form whose submit button is disabled
handleSubmit ==
    /\ ~submitDisabled
    /\ attempts' = <<>>
    /\ ignoredSubmit' = FALSE
    /\ UNCHANGED calls
    /\ submitted' = Some(companyName)
    /\ shownAtSubmit' = (companyData # Null)
    /\ lastResponse' = Null
    /\ nOnResult' = 0
    /\ UNCHANGED companyName
    /\ LET name == Trim(companyName)
       IN IF IsBlank(name)
          THEN /\ inputError' = Some(EmptyInputMessage)
               /\ handleError(EmptyInputMessage)
               /\ outcome' = "invalid"
               /\ nOnError' = 1
               /\ nAnalyze' = 0
               /\ nPosts' = 0
               /\ UNCHANGED <<isLoading, callVars, inFlight>>
          ELSE /\ inputError' = Null
               /\ isLoading' = TRUE
               /\ trimmedName' = name
               /\ retryCount' = 0
               /\ request' = Some(PostRequest(name))
               /\ outcome' = "pending"
               /\ nOnError' = 0
               /\ nAnalyze' = 1
               /\ nPosts' = 1
               /\ inFlight' = inFlight + 1
               /\ UNCHANGED pageVars

\* a click on the submit button while it is disabled: the browser dispatches
\* no submit event and handleSubmit does not run
clickWhileDisabled ==
    /\ submitDisabled
    /\ ignoredSubmit' = TRUE
    /\ UNCHANGED <<formVars, callVars, pageVars, histVars, inFlight, attempts, calls>>

\* variant: the finally block is missing and isLoading stays set
SettleKeepsLoading ==
    /\ UNCHANGED isLoading
    /\ request' = Null
    /\ inFlight' = inFlight - 1
    /\ UNCHANGED <<companyName, inputError, trimmedName, retryCount, submitted, shownAtSubmit,
                   nAnalyze, nPosts, ignoredSubmit, calls>>

\* the rest of handleSubmit once analyzeCompany has settled
Settle ==
    /\ isLoading' = FALSE
    /\ request' = Null
    /\ inFlight' = inFlight - 1
    /\ UNCHANGED <<companyName, inputError, trimmedName, retryCount, submitted, shownAtSubmit,
                   nAnalyze, nPosts, ignoredSubmit, calls>>

\* api.post resolves with a 2xx response whose body is data (Null: the body is null)
PostResolves(data) ==
    /\ request # Null
    /\ Settle
    /\ attempts' = Append(attempts, IF data = Null THEN "badbody" ELSE "ok")
    /\ IF data = Null
       THEN \* response.data.company_info throws a TypeError, which is not an
            \* axios error: rethrown, caught by handleSubmit
            /\ handleError(TypeErrorMessage)
            /\ outcome' = "rejected"
            /\ nOnError' = nOnError + 1
            /\ UNCHANGED <<lastResponse, nOnResult>>
       ELSE /\ handleResult(transformedData(data[1], trimmedName))
            /\ outcome' = "resolved"
            /\ lastResponse' = data
            /\ nOnResult' = nOnResult + 1
            /\ UNCHANGED nOnError

\* api.post rejects with a timeout while attempts are left: the same request again
PostRetries(err) ==
    /\ request # Null
    /\ shouldRetry(err, retryCount)
    /\ retryCount' = retryCount + 1
    /\ attempts' = Append(attempts, AttemptKind(err))
    /\ request' = Some(PostRequest(trimmedName))
    /\ nPosts' = nPosts + 1
    /\ UNCHANGED <<formVars, trimmedName, pageVars, submitted, outcome, shownAtSubmit,
                   lastResponse, nAnalyze, nOnResult, nOnError, inFlight, ignoredSubmit, calls>>

\* variant: the catch block of handleSubmit swallows the error
PostRejectsSilently(err) ==
    /\ request # Null
    /\ ~shouldRetry(err, retryCount)
    /\ Settle
    /\ attempts' = Append(attempts, AttemptKind(err))
    /\ outcome' = "rejected"
    /\ UNCHANGED <<pageVars, lastResponse, nOnResult, nOnError>>

\* api.post rejects and executeWithRetry throws new Error(errorMessage)
PostRejects(err) ==
    /\ request # Null
    /\ ~shouldRetry(err, retryCount)
    /\ Settle
    /\ attempts' = Append(attempts, AttemptKind(err))
    /\ handleError(errorMessage(err))
    /\ outcome' = "rejected"
    /\ nOnError' = nOnError + 1
    /\ UNCHANGED <<lastResponse, nOnResult>>

Next ==
    \/ \E value \in TypedNames : onChange(value)
    \/ handleSubmit
    \/ clickWhileDisabled
    \/ \E data \in {Null} \cup {Some(d) : d \in ResponseData} : PostResolves(data)
    \/ \E err \in AxiosErrors : PostRetries(err)
    \/ \E err \in AxiosErrors : PostRejects(err)

Spec == Init /\ [][Next]_vars

\* the 2xx bodies of the fair specification: null, every section, no section
LiveResponses == {Null, Some(FullData), Some(BareData)}

\* the awaited api.post settles: it resolves, or it rejects and is retried or
\* makes the call throw
AttemptSettles ==
    \/ \E data \in LiveResponses : PostResolves(data)
    \/ \E err \in AxiosErrors : PostRetries(err)
    \/ \E err \in AxiosErrors : PostRejects(err)

LiveNext ==
    \/ \E value \in TypedNames : onChange(value)
    \/ handleSubmit
    \/ clickWhileDisabled
    \/ \E data \in LiveResponses : PostResolves(data)
    \/ \E err \in AxiosErrors : PostRetries(err)
    \/ \E err \in AxiosErrors : PostRejects(err)

\* every api.post settles: the axios instance has a 300000 ms timeout
LiveSpec == Init /\ [][LiveNext]_vars /\ WF_vars(AttemptSettles)

\* ------------------------------------- analyzeCompany called directly
\* analyzeCompany is an exported function: besides the form, any caller may
\* call it, and calls may overlap.  Each call has its own closure (companyName,
\* retryCount) and its own awaited request.
formState == <<formVars, callVars, pageVars, histVars, attemptVars>>

\* the names direct callers pass
CallNames == {Trim(n) : n \in TypedNames} \ {<<>>}

\* the 2xx bodies and the rejections the direct calls receive
CallResponses == {Null, Some(FullData), Some(BareData)}
CallErrors == {e \in AxiosErrors : e.code \in {"ECONNABORTED", "ETIMEDOUT", "ERR_NETWORK", "ERR_BAD_RESPONSE"}}

\* variant: retryCount is one counter shared by all calls
incrementSharedRetryCount(cs, c) == [k \in DOMAIN cs |-> [cs[k] EXCEPT !.retryCount = @ + 1]]

\* retryCount++ on the counter declared inside the call
incrementRetryCount(cs, c) == [cs EXCEPT ![c].retryCount = @ + 1]

\* analyzeCompany(name) up to the first await of executeWithRetry
analyzeCompany(c, name) ==
    /\ calls[c].status # "posting"
    /\ calls' = [calls EXCEPT ![c] =
                    [status |-> "posting", companyName |-> name, retryCount |-> 0,
                     request |-> Some(PostRequest(name)), result |-> Null, thrown |-> Null,
                     nPosts |-> 1, attempts |-> <<>>]]
    /\ UNCHANGED formState

\* api.post of call c resolves with a 2xx response whose body is data
executeWithRetryReturns(c, data) ==
    /\ calls[c].status = "posting"
    /\ LET call == calls[c]
       IN calls' = [calls EXCEPT ![c] =
                    IF data = Null
                    THEN [call EXCEPT !.status = "rejected", !.request = Null,
                                      !.thrown = Some(TypeErrorMessage),
                                      !.attempts = Append(call.attempts, "badbody")]
                    ELSE [call EXCEPT !.status = "resolved", !.request = Null,
                                      !.result = Some(transformedData(data[1], call.companyName)),
                                      !.attempts = Append(call.attempts, "ok")]]
    /\ UNCHANGED formState

\* api.post of call c rejects with a timeout while attempts are left
executeWithRetryRetries(c, err) ==
    /\ calls[c].status = "posting"
    /\ shouldRetry(err, calls[c].retryCount)
    /\ calls' = [incrementRetryCount(calls, c) EXCEPT
                    ![c].request = Some(PostRequest(calls[c].companyName)),
                    ![c].nPosts = @ + 1,
                    ![c].attempts = Append(@, AttemptKind(err))]
    /\ UNCHANGED formState

\* api.post of call c rejects and executeWithRetry throws
executeWithRetryThrows(c, err) ==
    /\ calls[c].status = "posting"
    /\ ~shouldRetry(err, calls[c].retryCount)
    /\ calls' = [calls EXCEPT ![c].status = "rejected", ![c].request = Null,
                              ![c].thrown = Some(errorMessage(err)),
                              ![c].attempts = Append(@, AttemptKind(err))]
    /\ UNCHANGED formState

CallsNext ==
    \/ \E c \in CallIds, name \in CallNames : analyzeCompany(c, name)
    \/ \E c \in CallIds, data \in CallResponses : executeWithRetryReturns(c, data)
    \/ \E c \in CallIds, err \in CallErrors : executeWithRetryRetries(c, err)
    \/ \E c \in CallIds, err \in CallErrors : executeWithRetryThrows(c, err)

CallsSpec == Init /\ [][CallsNext]_vars


\* ------------------------------------------------------------- claims
\* a text that is empty or consists only of whitespace
OnlyWhiteSpace(text) == \A i \in 1..Len(text) : text[i] \in WhiteSpace

\* the latest submit resolved: the report on display came from lastResponse
Resolved == outcome = "resolved"
Report == companyData[1]
Response == lastResponse[1]

\* C1: a submit of an empty or whitespace-only company name is rejected with
\* the input error, and for that submit analyzeCompany is called zero times
\* and no POST is issued.
C1_EmptyInputRejected ==
    (submitted # Null /\ OnlyWhiteSpace(submitted[1])) =>
        /\ outcome = "invalid"
        /\ error = Some(EmptyInputMessage)
        /\ nOnError = 1
        /\ nAnalyze = 0
        /\ nPosts = 0
        /\ request = Null
        /\ ~isLoading

\* a whitespace-only (non-empty) text was submitted and rejected
C1_Witness ==
    /\ submitted # Null /\ submitted[1] # <<>> /\ OnlyWhiteSpace(submitted[1])
    /\ outcome = "invalid"
    /\ inputError = Some(EmptyInputMessage)

\* C3: in every reachable state the page's error message and its displayed
\* report are not both non-null.
C3_ErrorXorReport == ~(error # Null /\ companyData # Null)

\* an error banner has replaced a report that was on display
C3_Witness ==
    /\ error # Null /\ companyData = Null
    /\ shownAtSubmit /\ outcome = "invalid"

\* C4: when the analyze request ends in a request-level error, no report is
\* issued: analyzeCompany returned nothing, onResult was not called for that
\* submit, onError was, and the page displays no report afterwards.
C4_NoPartialReport ==
    outcome = "rejected" =>
        /\ lastResponse = Null
        /\ nOnResult = 0
        /\ nOnError = 1
        /\ companyData = Null
        /\ error # Null

\* a request failed after its last retry while an earlier report was on display
C4_Witness ==
    /\ outcome = "rejected"
    /\ shownAtSubmit
    /\ nPosts = maxRetries
    /\ error = Some(TimeoutMessage)

\* the fields of the CompanyReport shape: identity, market snapshot, narrative,
\* risk list, news list and provenance sources
ReportShapeFields ==
    {"company_info", "financial_data", "financial_analysis", "potential_risks", "news_data", "sources"}

\* C2: after a successful analysis every field of the CompanyReport shape is
\* present in the report: the four identity fields, every market snapshot
\* field, the four narrative fields, the risk list, the news list and the
\* list of provenance sources.
C2_EveryFieldPopulated ==
    Resolved =>
        /\ ReportShapeFields \subseteq DOMAIN Report
        /\ DOMAIN Report.company_info = {"name", "description", "sector", "industry"}
        /\ DOMAIN Report.financial_analysis = NarrativeFields
        /\ \A f \in FinancialFields : Report.financial_data[f] # Null

\* the numeric field f is missing from the provider data of the response
MissingNumber(f) == Response.financial_data = Null \/ Response.financial_data[1][f] = Null

\* C5: after a successful analysis, every numeric market/financial field that
\* is missing from the provider data is the marker "N/A" in the report, and
\* the text rendered for it is "N/A".
C5_MissingNumberIsNA ==
    Resolved =>
        \A f \in FinancialFields :
            MissingNumber(f) =>
                /\ Report.financial_data[f] = Some(StrVal(NA))
                /\ renderedNumber(Report, f) = NA

\* the narrative field f is missing from the response
MissingNarrative(f) == Response.financial_analysis = Null \/ Response.financial_analysis[1][f] = Null

\* C6: after a successful analysis, each narrative field missing from the
\* response is the empty string in the report, a missing risk list or news
\* list is the empty sequence, and a field that is present and non-empty is
\* carried over unchanged.
C6_NarrativeAndListDefaults ==
    Resolved =>
        /\ \A f \in NarrativeFields :
            /\ MissingNarrative(f) => Report.financial_analysis[f] = <<>>
            /\ (~MissingNarrative(f) /\ Response.financial_analysis[1][f][1] # <<>>) =>
                    Report.financial_analysis[f] = Response.financial_analysis[1][f][1]
        /\ Response.potential_risks = Null => Report.potential_risks = <<>>
        /\ Response.news_data = Null => Report.news_data = <<>>
        /\ (Response.potential_risks # Null /\ Response.potential_risks[1] # <<>>) =>
                Report.potential_risks = Response.potential_risks[1]
        /\ (Response.news_data # Null /\ Response.news_data[1] # <<>>) =>
                Report.news_data = Response.news_data[1]

\* a response with a partly filled narrative section and no lists was transformed
C6_Witness ==
    /\ Resolved
    /\ Response.financial_analysis # Null
    /\ \E f \in NarrativeFields : MissingNarrative(f)
    /\ \E f \in NarrativeFields : ~MissingNarrative(f) /\ Report.financial_analysis[f] # <<>>
    /\ Response.potential_risks = Null
    /\ Response.news_data = Null

\* C7: after a successful analysis whose response carries a news list, the
\* report's news list has the same length and the same item at every position
\* (a response with zero articles gives the empty list), and the items are
\* rendered in that order; likewise for the risk list.
C7_ListsInOrder ==
    Resolved =>
        /\ Response.news_data # Null =>
            /\ Len(Report.news_data) = Len(Response.news_data[1])
            /\ \A i \in 1..Len(Response.news_data[1]) :
                /\ Report.news_data[i] = Response.news_data[1][i]
                /\ renderedNews(Report)[i].title = Response.news_data[1][i].title
            /\ Len(renderedNews(Report)) = Len(Response.news_data[1])
        /\ Response.potential_risks # Null =>
            /\ Len(Report.potential_risks) = Len(Response.potential_risks[1])
            /\ \A i \in 1..Len(Response.potential_risks[1]) :
                /\ Report.potential_risks[i] = Response.potential_risks[1][i]
                /\ renderedRisks(Report)[i] = Response.potential_risks[1][i]

\* a response with two different articles was transformed
C7_Witness ==
    /\ Resolved
    /\ Response.news_data # Null
    /\ Len(Response.news_data[1]) = 2
    /\ Response.news_data[1][1] # Response.news_data[1][2]
    /\ Len(Report.news_data) = 2

\* a second witness of C7's case: zero articles
C7_ZeroArticles ==
    /\ Resolved
    /\ Response.news_data = Some(<<>>)
    /\ Report.news_data = <<>>

\* the responses that differ from data only in that a section data carries as
\* empty is lacking, or is marked failed in the sources field
FailedVariants(data) ==
    {[data EXCEPT !.news_data = Null] : x \in {1} \cap {IF data.news_data = Some(<<>>) THEN 1 ELSE 0}}
    \cup {[data EXCEPT !.potential_risks = Null] :
            x \in {1} \cap {IF data.potential_risks = Some(<<>>) THEN 1 ELSE 0}}
    \cup {[data EXCEPT !.sources = v] :
            v \in {w \in SourcesInputs : w # Null /\ data.sources = Null /\ data.news_data = Some(<<>>)}}

\* C8: a response carrying a section as empty data and a response that lacks
\* that section, or marks it failed in its sources field, never give the same
\* report.
C8_FailureDistinguishable ==
    Resolved =>
        \A other \in FailedVariants(Response) :
            transformedData(other, trimmedName) # Report

\* C9: after a successful analysis of a non-empty name, company_info.name of
\* the report is the name in the response when that is non-empty, otherwise
\* the name handed to analyzeCompany (the submitted text without surrounding
\* whitespace); it is never empty.
C9_ReportName ==
    Resolved =>
        LET resolvedName == OptField(Response.company_info, "name")
        IN /\ (resolvedName # Null /\ resolvedName[1] # <<>>) =>
                    Report.company_info.name = resolvedName[1]
           /\ (resolvedName = Null \/ resolvedName[1] = <<>>) =>
                    /\ Report.company_info.name = trimmedName
                    /\ ~OnlyWhiteSpace(trimmedName)
                    /\ trimmedName[1] \notin WhiteSpace
                    /\ trimmedName[Len(trimmedName)] \notin WhiteSpace
                    /\ \E i \in 0..Len(submitted[1]) :
                            SubSeq(submitted[1], i + 1, i + Len(trimmedName)) = trimmedName
           /\ Report.company_info.name # <<>>

\* a name typed with surrounding whitespace was analysed and the response
\* carried an empty name
C9_Witness ==
    /\ Resolved
    /\ submitted[1] # trimmedName
    /\ Response.company_info # Null
    /\ Response.company_info[1].name = Some(<<>>)
    /\ Report.company_info.name = trimmedName

\* C10: every request in flight is a POST to /api/v1/analyze whose body is
\* { company_name: <the trimmed submitted name> }.
C10_DocumentedEndpoint ==
    request # Null =>
        /\ request[1].method = "POST"
        /\ request[1].url = "/api/v1/analyze"
        /\ request[1].body = [company_name |-> trimmedName]

\* every settled attempt of att but the last one ended in a timeout
OnlyTimeoutsBeforeLast(att) == \A i \in 1..(Len(att) - 1) : att[i] = "timeout"

\* what a call's own requests and their responses say about the call
OwnHistory(call) ==
    /\ call.status # "idle" => call.nPosts >= 1
    /\ call.status = "posting" =>
        /\ call.request = Some(PostRequest(call.companyName))
        /\ call.nPosts = Len(call.attempts) + 1
        /\ call.retryCount = Len(call.attempts)
        /\ \A i \in 1..Len(call.attempts) : call.attempts[i] = "timeout"
    /\ call.status \in {"resolved", "rejected"} =>
        /\ call.request = Null
        /\ call.nPosts = Len(call.attempts)
        /\ call.retryCount = Len(call.attempts) - 1
        /\ OnlyTimeoutsBeforeLast(call.attempts)
        /\ (call.status = "resolved") = (call.attempts[Len(call.attempts)] = "ok")
        /\ (call.status = "resolved") = (call.result # Null)
        /\ call.attempts[Len(call.attempts)] = "timeout" => Len(call.attempts) = maxRetries

\* C11: overlapping and repeated analyzeCompany calls are independent: a step
\* of one call changes no other call (its attempt counter included), every
\* call that was started has issued a request of its own, and its attempt
\* counter, number of requests and outcome follow from the responses to its
\* own requests.
C11_CallsIndependent ==
    [][/\ \A c, d \in CallIds : (c # d /\ calls'[c] # calls[c]) => calls'[d] = calls[d]
       /\ \A c \in CallIds : OwnHistory(calls'[c])]_vars

\* two overlapping calls with the same name, one on its third attempt and the
\* other on its first
C11_Witness ==
    \E c, d \in CallIds :
        /\ calls[c].status = "posting" /\ calls[d].status = "posting"
        /\ calls[c].companyName = calls[d].companyName
        /\ calls[c].retryCount = maxRetries - 1
        /\ calls[d].retryCount = 0

\* a second witness of C11's case: a call repeated after an earlier call with
\* the same name resolved
C11_Repeated ==
    \E c, d \in CallIds :
        /\ calls[c].status = "resolved" /\ calls[d].status = "posting"
        /\ calls[c].companyName = calls[d].companyName
        /\ calls[d].request # Null

\* what the settled attempts say about the call of the latest submit
RetrySafety ==
    /\ nPosts <= maxRetries
    /\ outcome = "pending" =>
        /\ request # Null
        /\ nPosts = Len(attempts) + 1
        /\ \A i \in 1..Len(attempts) : attempts[i] = "timeout"
    /\ outcome \in {"resolved", "rejected"} =>
        /\ request = Null
        /\ nPosts = Len(attempts)
        /\ OnlyTimeoutsBeforeLast(attempts)
        /\ (outcome = "resolved") = (attempts[Len(attempts)] = "ok")
        /\ attempts[Len(attempts)] = "timeout" => Len(attempts) = maxRetries

\* C12: one call issues at most 3 POSTs; a further POST follows only a timeout
\* of the previous one while fewer than 3 were issued; any other failure, or a
\* timeout of the third, rejects without a further attempt; a success
\* resolves; and, when every attempt settles, every call settles.
C12_BoundedRetries ==
    /\ []RetrySafety
    /\ (outcome = "pending") ~> (outcome \in {"resolved", "rejected"})

\* the third attempt timed out and the call rejected
C12_Witness ==
    /\ outcome = "rejected"
    /\ attempts = <<"timeout", "timeout", "timeout">>
    /\ nPosts = maxRetries
    /\ ~shownAtSubmit

\* a second witness of C12's case: the second attempt failed otherwise
C12_RejectedEarly ==
    /\ outcome = "rejected"
    /\ attempts = <<"timeout", "error">>
    /\ nPosts = 2

\* C13: on one form at most one analyzeCompany call is in flight: a click on
\* the submit button while a request is unsettled starts no second call, and
\* the request in flight is the one of the latest submit.
C13_OneInFlight ==
    /\ inFlight \in {0, 1}
    /\ nAnalyze <= 1
    /\ (inFlight = 1) = (request # Null)
    /\ (inFlight = 1) = (outcome = "pending")
    /\ ignoredSubmit => nAnalyze = 1
    /\ request # Null => request[1].body.company_name = trimmedName

\* the button was clicked while the request was unsettled, and the request
\* then resolved
C13_Witness ==
    /\ ignoredSubmit
    /\ Resolved
    /\ nAnalyze = 1
    /\ inFlight = 0

\* C14: isLoading is true exactly while the request of a non-empty submit is
\* unsettled, is not set by an empty or whitespace-only submit, and always
\* returns to false.
C14_LoadingFlag ==
    /\ [](isLoading = (request # Null))
    /\ [](isLoading = (outcome = "pending"))
    /\ []((submitted # Null /\ OnlyWhiteSpace(submitted[1])) => ~isLoading)
    /\ isLoading ~> ~isLoading

\* the call threw an error that is not an axios error and the flag is reset
C14_Witness ==
    /\ outcome = "rejected"
    /\ attempts[Len(attempts)] = "badbody"
    /\ ~isLoading

\* the callbacks invoked for the latest submit
OneOutcome ==
    /\ outcome \in {"none", "pending"} => nOnResult = 0 /\ nOnError = 0
    /\ outcome \in {"invalid", "rejected"} => nOnError = 1 /\ nOnResult = 0 /\ error # Null
    /\ outcome = "resolved" => nOnResult = 1 /\ nOnError = 0 /\ companyData # Null

\* C15: every completed submit invokes exactly one of onResult and onError,
\* once (onError for an empty input or a rejected call, onResult for a
\* resolved one), and until then the page's error and report do not change.
C15_ExactlyOneCallback ==
    [][/\ OneOutcome'
       /\ outcome' = "pending" => (error' = error /\ companyData' = companyData)]_vars

\* a submit made while no report was on display resolved on its second attempt
C15_Witness ==
    /\ Resolved
    /\ ~shownAtSubmit
    /\ attempts = <<"timeout", "ok">>
    /\ nOnResult = 1 /\ nOnError = 0

====
